---------------------------- MODULE Spec2Model ----------------------------
(***************************************************************************)
(* A model of src/app.py: the text extractor (extract_text), the answer   *)
(* segmenter (split_answers) and the /analyze request handler (analyze).  *)
(*                                                                         *)
(* Texts are sequences of one-character strings.  A similarity is an      *)
(* integer in units of 10^-5 (0.20 is 20000); a percentage is an integer  *)
(* in hundredths of a percent (45.00 is 4500), which is what two decimal  *)
(* places can hold.                                                        *)
(***************************************************************************)
EXTENDS Integers, Sequences, FiniteSets, TLC

VARIABLES
    pc,                 \* analyze: position in the handler
    request,            \* analyze: request.files ("teacher", "students")
    teacher_answers,    \* analyze: line 86
    teacher_embeddings, \* analyze: line 94
    all_results,        \* analyze: line 91
    k,                  \* analyze: index of student_pdf in student_pdfs (line 99)
    student_answers,    \* analyze: line 102
    student_embeddings, \* analyze: line 117
    student_result,     \* analyze: line 104
    similarities,       \* analyze: line 110
    i,                  \* analyze: loop variable of line 122
    response,           \* analyze: what the handler returned
    log,                \* analyze: the calls the handler made, in order
    ex_pc,              \* extract_text: position in the function
    pdf_file,           \* extract_text: the argument, with what the libraries do on it
    cursor,             \* extract_text: the stream position of pdf_file
    text,               \* extract_text: line 23
    pg,                 \* extract_text: index of the page / image being visited
    calls,              \* extract_text: the library calls made in this invocation
    cleaned             \* split_answers: the returned list

vars == <<pc, request, teacher_answers, teacher_embeddings, all_results, k,
          student_answers, student_embeddings, student_result, similarities, i,
          response, log, ex_pc, pdf_file, cursor, text, pg, calls, cleaned>>

handler_vars == <<pc, request, teacher_answers, teacher_embeddings, all_results, k,
                  student_answers, student_embeddings, student_result,
                  similarities, i, response, log>>

extract_vars == <<ex_pc, pdf_file, cursor, text, pg, calls>>

-----------------------------------------------------------------------------
(* Bounds of the model.                                                     *)

MaxPages == 2       \* pages (and page images) of a document, SpecExtract
MaxPieces == 4      \* pieces a text is put together from, SpecSplit
MaxStudents == 2    \* student files of a request, Spec

-----------------------------------------------------------------------------
(* Texts.                                                                   *)

Rep(c, n) == [x \in 1..n |-> c]

Min(S) == CHOOSE x \in S : \A y \in S : x <= y
Max(S) == CHOOSE x \in S : \A y \in S : x >= y

NL == "\n"

\* str.strip() with no argument strips whitespace.
Whitespace == {" ", NL, "\t", "\r"}

Digits == {"0", "1", "2", "3", "4", "5", "6", "7", "8", "9"}

Letters == {"a", "b", "c", "d", "e", "f", "g", "h", "i", "j", "k", "l", "m",
            "n", "o", "p", "q", "r", "s", "t", "u", "v", "w", "x", "y", "z",
            "A", "B", "C", "D", "E", "F", "G", "H", "I", "J", "K", "L", "M",
            "N", "O", "P", "Q", "R", "S", "T", "U", "V", "W", "X", "Y", "Z"}

\* The characters the regular expression's \w matches, which decide \b.
WordChars == Letters \cup Digits \cup {"_"}

strip(s) ==
    LET keep == {x \in 1..Len(s) : s[x] \notin Whitespace}
    IN  IF keep = {} THEN <<>> ELSE SubSeq(s, Min(keep), Max(keep))


-----------------------------------------------------------------------------
(* split_answers (lines 58-68).                                             *)

\* Line 65: a part is kept when len(part) > 20.
MinAnswerLen == 20

\* \b at position p: exactly one of the characters before and at p is a
\* word character (the ends of the string count as non-word).
WordBoundary(s, p) ==
    (p > 1 /\ s[p - 1] \in WordChars) # (p <= Len(s) /\ s[p] \in WordChars)

\* \d+ from position p: the first position at or after p that holds no digit.
DigitsEnd(s, p) ==
    Min({x \in p..(Len(s) + 1) : x = Len(s) + 1 \/ s[x] \notin Digits})

\* Line 59, r'(?:\bQ?\d+\.)' tried at position p: the position of the
\* match's last character (the period), or 0 when there is no match at p.
\* Q? and \d+ are greedy, and a shorter choice never matches where the
\* greedy one fails: with Q given up the next character is Q, no digit;
\* with a digit given up the next character is a digit, no period.
pattern_match(s, p) ==
    LET q == IF p <= Len(s) /\ s[p] = "Q" THEN p + 1 ELSE p
        e == DigitsEnd(s, q)
    IN  IF WordBoundary(s, p) /\ e > q /\ e <= Len(s) /\ s[e] = "."
        THEN e ELSE 0

\* Line 60, re.split(pattern, text): the scan is at position p and the
\* current part began at position from.  The pattern has no capture group,
\* so the delimiters are not returned; a match is never empty.
RECURSIVE re_split(_, _, _)
re_split(s, p, from) ==
    IF p > Len(s)
    THEN <<SubSeq(s, from, Len(s))>>
    ELSE LET e == pattern_match(s, p)
         IN  IF e > 0
             THEN <<SubSeq(s, from, p - 1)>> \o re_split(s, e + 1, e + 1)
             ELSE re_split(s, p + 1, from)

\* A variant of long_enough: a part of exactly 20 characters is kept.
long_enough_from_min(part) == Len(part) >= MinAnswerLen

\* Line 65.
long_enough(part) == Len(part) > MinAnswerLen

\* Lines 58-68.
split_answers(t) ==
    LET parts == re_split(t, 1, 1)
        stripped == [x \in 1..Len(parts) |-> strip(parts[x])]
    IN  SelectSeq(stripped, long_enough)

-----------------------------------------------------------------------------
(* extract_text (lines 22-53).                                              *)
(*                                                                         *)
(* pdf_file stands for the uploaded stream together with what the          *)
(* libraries do when given it:                                             *)
(*   open    "ok" or "raise": PyPDF2.PdfReader(pdf_file), line 27          *)
(*   pages   per page, what page.extract_text() returns, or RAISE          *)
(*   seek    "ok" or "raise": pdf_file.seek(0), line 43                    *)
(*   convert "ok" or "raise": convert_from_bytes(pdf_file.read()), line 44 *)
(*   images  per page image, what image_to_string returns, or RAISE        *)
(***************************************************************************)

\* Line 34: the directly extracted text is returned when its stripped
\* length is > 50.
MinDirectLen == 50

\* A page or an image on which the library raises.
RAISE == <<"raise">>

\* A variant of except_target: the rewind of line 43 stands before the
\* second try, so that its exception leaves extract_text.
except_target_seek_outside(loc) ==
    CASE loc \in {"open", "pages"} -> "seek"
      [] loc \in {"convert", "ocr"} -> "returned"
      [] OTHER -> "raised"

\* Where an exception raised at position loc of extract_text continues:
\* lines 27-35 are inside the first try, whose handler (line 37) falls
\* through to the OCR fallback; lines 42-48 are inside the second try, whose
\* handler (line 50) falls through to the return of line 53.
except_target(loc) ==
    CASE loc \in {"open", "pages"} -> "seek"
      [] loc \in {"seek", "convert", "ocr"} -> "returned"
      [] OTHER -> "raised"

\* The call extract_text(f): line 23.
call_extract_text(f) ==
    /\ ex_pc' = "open"
    /\ pdf_file' = f
    /\ cursor' = "start"
    /\ text' = <<>>
    /\ pg' = 0
    /\ calls' = <<>>

\* Line 27: reader = PyPDF2.PdfReader(pdf_file).  The reader reads from the
\* stream, which leaves the cursor away from the start.
OpenReader ==
    /\ ex_pc = "open"
    /\ calls' = Append(calls, <<"PdfReader">>)
    /\ cursor' = "moved"
    /\ IF pdf_file.open = "raise"
       THEN /\ ex_pc' = except_target("open")
            /\ pg' = pg
       ELSE /\ ex_pc' = "pages"
            /\ pg' = 1
    /\ UNCHANGED <<pdf_file, text, handler_vars, cleaned>>

\* Lines 28-31: one iteration of the loop over reader.pages.
ReadPage ==
    /\ ex_pc = "pages"
    /\ pg <= Len(pdf_file.pages)
    /\ calls' = Append(calls, <<"page.extract_text", pg>>)
    /\ LET extracted == pdf_file.pages[pg]
       IN  IF extracted = RAISE
           THEN /\ ex_pc' = except_target("pages")
                /\ UNCHANGED <<text, pg>>
           ELSE /\ text' = IF extracted # <<>>
                           THEN text \o extracted \o <<NL>>
                           ELSE text
                /\ pg' = pg + 1
                /\ ex_pc' = "pages"
    /\ UNCHANGED <<pdf_file, cursor, handler_vars, cleaned>>

\* Lines 34-35, after the last page: return the text if it is long enough,
\* else leave the try block and go on to the OCR fallback.
CheckDirect ==
    /\ ex_pc = "pages"
    /\ pg > Len(pdf_file.pages)
    /\ ex_pc' = IF Len(strip(text)) > MinDirectLen THEN "returned" ELSE "seek"
    /\ UNCHANGED <<pdf_file, cursor, text, pg, calls, handler_vars, cleaned>>

\* A variant of Rewind: the stream is not rewound before it is read again.
RewindSkipped ==
    /\ ex_pc = "seek"
    /\ ex_pc' = "convert"
    /\ UNCHANGED <<pdf_file, cursor, text, pg, calls, handler_vars, cleaned>>

\* Lines 42-43: pdf_file.seek(0).
Rewind ==
    /\ ex_pc = "seek"
    /\ calls' = Append(calls, <<"seek", 0>>)
    /\ IF pdf_file.seek = "raise"
       THEN /\ ex_pc' = except_target("seek")
            /\ cursor' = cursor
       ELSE /\ ex_pc' = "convert"
            /\ cursor' = "start"
    /\ UNCHANGED <<pdf_file, text, pg, handler_vars, cleaned>>

\* Line 44: images = convert_from_bytes(pdf_file.read()).  The read starts
\* at the cursor, and leaves it at the end.
Rasterize ==
    /\ ex_pc = "convert"
    /\ calls' = calls \o <<(<<"read", cursor>>), (<<"convert_from_bytes">>)>>
    /\ cursor' = "end"
    /\ IF pdf_file.convert = "raise"
       THEN /\ ex_pc' = except_target("convert")
            /\ pg' = pg
       ELSE /\ ex_pc' = "ocr"
            /\ pg' = 1
    /\ UNCHANGED <<pdf_file, text, handler_vars, cleaned>>

\* Lines 46-48: one iteration of the loop over images.
RecognizeImage ==
    /\ ex_pc = "ocr"
    /\ pg <= Len(pdf_file.images)
    /\ calls' = Append(calls, <<"image_to_string", pg>>)
    /\ LET ocr_text == pdf_file.images[pg]
       IN  IF ocr_text = RAISE
           THEN /\ ex_pc' = except_target("ocr")
                /\ UNCHANGED <<text, pg>>
           ELSE /\ text' = text \o ocr_text \o <<NL>>
                /\ pg' = pg + 1
                /\ ex_pc' = "ocr"
    /\ UNCHANGED <<pdf_file, cursor, handler_vars, cleaned>>

\* After the last image the try block ends and line 53 returns text.
FinishOcr ==
    /\ ex_pc = "ocr"
    /\ pg > Len(pdf_file.images)
    /\ ex_pc' = "returned"
    /\ UNCHANGED <<pdf_file, cursor, text, pg, calls, handler_vars, cleaned>>

ExtractStep ==
    \/ OpenReader
    \/ ReadPage
    \/ CheckDirect
    \/ Rewind
    \/ Rasterize
    \/ RecognizeImage
    \/ FinishOcr

-----------------------------------------------------------------------------
(* The values of the variables of a function that is not running.           *)

NoFile == [open |-> "raise", pages |-> <<>>, seek |-> "raise",
           convert |-> "raise", images |-> <<>>]

NoRequest == [teacher |-> "", students |-> <<>>]

NoResult == [pdf_name |-> "", questions |-> <<>>, performance_score |-> 0]

NoResponse == [code |-> 0, success |-> FALSE, error |-> "", data |-> <<>>]

HandlerIdle ==
    /\ request = NoRequest
    /\ teacher_answers = <<>>
    /\ teacher_embeddings = <<>>
    /\ all_results = <<>>
    /\ k = 0
    /\ student_answers = <<>>
    /\ student_embeddings = <<>>
    /\ student_result = NoResult
    /\ similarities = <<>>
    /\ i = 0
    /\ response = NoResponse
    /\ log = <<>>

ExtractIdle ==
    /\ ex_pc = "idle"
    /\ pdf_file = NoFile
    /\ cursor = "start"
    /\ pg = 0
    /\ calls = <<>>

-----------------------------------------------------------------------------
(* SpecExtract: extract_text called on every document of a bounded set.     *)

SeqsUpTo(S, n) == UNION {[1..m -> S] : m \in 0..n}

\* What page.extract_text() may give for a page: nothing, 24, 25 or 51
\* characters, 25 characters between spaces, or an exception.
PageOutcomes ==
    {<<>>, Rep("a", 24), Rep("a", 25), Rep("a", 51),
     <<" ">> \o Rep("a", 25) \o <<" ">>, RAISE}

\* What image_to_string may give for an image: a text or an exception.
OcrOutcomes == {<<"o", "c", "r">>, RAISE}

Files ==
    [open : {"ok", "raise"},
     pages : SeqsUpTo(PageOutcomes, MaxPages),
     seek : {"ok", "raise"},
     convert : {"ok", "raise"},
     images : SeqsUpTo(OcrOutcomes, MaxPages)]

InitExtract ==
    /\ pc = "extract_text"
    /\ HandlerIdle
    /\ cleaned = <<>>
    /\ ex_pc = "open"
    /\ pdf_file \in Files
    /\ cursor = "start"
    /\ text = <<>>
    /\ pg = 0
    /\ calls = <<>>

NextExtract == ExtractStep

SpecExtract == InitExtract /\ [][NextExtract]_vars

\* extract_text is one sequential function: a step that can be taken is taken.
FairSpecExtract == SpecExtract /\ WF_vars(NextExtract)

-----------------------------------------------------------------------------
(* SpecSplit: split_answers called on every text of a bounded set.          *)

RECURSIVE Flatten(_)
Flatten(ss) == IF ss = <<>> THEN <<>> ELSE Head(ss) \o Flatten(Tail(ss))

\* The pieces a text is put together from: the characters of a delimiter, a
\* space, a letter, and a run of 20 letters (one letter short of an answer).
Pieces == {<<"Q">>, <<"1">>, <<".">>, <<" ">>, <<"a">>, Rep("b", 20)}

\* "1. Hello world this is long enough. 2. Short."
ExampleText ==
    <<"1", ".", " ", "H", "e", "l", "l", "o", " ", "w", "o", "r", "l", "d",
      " ", "t", "h", "i", "s", " ", "i", "s", " ", "l", "o", "n", "g", " ",
      "e", "n", "o", "u", "g", "h", ".", " ", "2", ".", " ", "S", "h", "o",
      "r", "t", ".">>

SplitTexts ==
    {Flatten(ps) : ps \in SeqsUpTo(Pieces, MaxPieces)} \cup {ExampleText}

InitSplit ==
    /\ pc = "split_answers"
    /\ HandlerIdle
    /\ ExtractIdle
    /\ text \in SplitTexts
    /\ cleaned = <<>>

\* The call split_answers(text) and its return.
SplitAnswers ==
    /\ pc = "split_answers"
    /\ cleaned' = split_answers(text)
    /\ pc' = "split_returned"
    /\ UNCHANGED <<request, teacher_answers, teacher_embeddings, all_results,
                   k, student_answers, student_embeddings, student_result,
                   similarities, i, response, log, extract_vars>>

NextSplit == SplitAnswers

SpecSplit == InitSplit /\ [][NextSplit]_vars

-----------------------------------------------------------------------------
(* analyze (lines 73-174): the scoring of one teacher/student pair.         *)

\* Line 132: similarity < 0.20.
NoiseFloor == 20000

\* Line 139: percent_score >= 75.
StrongPercent == 7500

\* Line 141: percent_score >= 45.
PartialPercent == 4500

\* round(x, 2) for x = n / d hundredths: the integer nearest to n / d.  An
\* exact tie goes to the even one here; Python rounds the binary value of
\* the float, which is seldom an exact tie, so the properties below only
\* ask for a nearest hundredth.
round_div(n, d) ==
    LET q == n \div d
        r == n % d
    IN  IF 2 * r < d THEN q
        ELSE IF 2 * r > d THEN q + 1
        ELSE IF q % 2 = 0 THEN q ELSE q + 1

\* A variant of clamp: a similarity of exactly 0.20 is floored too.
clamp_inclusive(similarity) == IF similarity <= NoiseFloor THEN 0 ELSE similarity

\* Lines 132-133.
clamp(similarity) == IF similarity < NoiseFloor THEN 0 ELSE similarity

\* Line 137: round(similarity * 100, 2), in hundredths of a percent.
percent_of(similarity) == round_div(similarity, 10)

\* A variant of status_of: the thresholds 75 and 45 are exclusive.
status_of_exclusive(percent_score) ==
    IF percent_score > StrongPercent THEN "Strong Understanding"
    ELSE IF percent_score > PartialPercent THEN "Partial Understanding"
    ELSE IF percent_score > 0 THEN "Weak Understanding"
    ELSE "Not Related"

\* Lines 139-146.
status_of(percent_score) ==
    IF percent_score >= StrongPercent THEN "Strong Understanding"
    ELSE IF percent_score >= PartialPercent THEN "Partial Understanding"
    ELSE IF percent_score > 0 THEN "Weak Understanding"
    ELSE "Not Related"

RECURSIVE sum(_)
sum(xs) == IF xs = <<>> THEN 0 ELSE Head(xs) + sum(Tail(xs))

\* A variant of performance_of: the mean is taken over the teacher's
\* answers, not over the pairs scored.
performance_over_key(sims) ==
    IF sims # <<>> THEN round_div(sum(sims), 10 * Len(teacher_answers)) ELSE 0

\* Lines 155-160: round((sum(similarities) / len(similarities)) * 100, 2),
\* in hundredths of a percent; 0 for an empty list.
performance_of(sims) ==
    IF sims # <<>> THEN round_div(sum(sims), 10 * Len(sims)) ELSE 0

-----------------------------------------------------------------------------
(* analyze (lines 73-174): the handler.                                     *)

A25 == Rep("a", 25)
B25 == Rep("b", 25)
C25 == Rep("c", 25)

\* The uploaded files, by file name, with what the libraries do on each.
\*   typed.pdf   a text layer of 57 characters holding two answers
\*   scan.pdf    no text layer; OCR reads three answers from two images
\*   mixed.pdf   one answer on page 1, page 2 raises, rasterization raises
\*   broken.pdf  the reader and the rewind raise: no text
\*   note.pdf    a 20-character answer on its page; OCR raises on the image
DocTable ==
    [f \in {"typed.pdf", "scan.pdf", "mixed.pdf", "broken.pdf", "note.pdf"} |->
        CASE f = "typed.pdf" ->
               [open |-> "ok",
                pages |-> << <<"1", ".", " ">> \o A25 \o <<" ", "2", ".", " ">> \o B25 >>,
                seek |-> "ok", convert |-> "ok", images |-> <<>>]
          [] f = "scan.pdf" ->
               [open |-> "ok", pages |-> << <<>> >>,
                seek |-> "ok", convert |-> "ok",
                images |-> << <<"Q", "1", ".", " ">> \o A25 \o <<NL, "Q", "2", ".">> \o B25,
                              <<"Q", "3", ".", " ">> \o C25 >>]
          [] f = "mixed.pdf" ->
               [open |-> "ok",
                pages |-> << <<"1", ".", " ">> \o A25, RAISE >>,
                seek |-> "ok", convert |-> "raise", images |-> <<>>]
          [] f = "broken.pdf" ->
               [open |-> "raise", pages |-> <<>>,
                seek |-> "raise", convert |-> "raise", images |-> <<>>]
          [] f = "note.pdf" ->
               [open |-> "ok",
                pages |-> << <<"2", ".", " ">> \o Rep("b", 20) >>,
                seek |-> "ok", convert |-> "ok", images |-> << RAISE >>]]

DocIds == DOMAIN DocTable

\* request.files without a "teacher" entry.
Missing == "(no file)"

\* What util.cos_sim may return, in units of 10^-5: a negative value, values
\* below, at and above the noise floor, and values around the thresholds.
SimSet == {-25000, 10000, 19999, 20000, 30000, 44996, 74994, 75000, 90000}

min(a, b) == IF a < b THEN a ELSE b

respond(code, success, error, data) ==
    /\ response' = [code |-> code, success |-> success, error |-> error,
                    data |-> data]
    /\ pc' = "done"

\* A variant of Validate: the students list is checked before the teacher.
ValidateStudentsFirst ==
    /\ pc = "start"
    /\ IF Len(request.students) = 0
       THEN /\ respond(400, FALSE, "No student files uploaded", <<>>)
            /\ UNCHANGED <<log, extract_vars, text>>
       ELSE IF request.teacher = Missing
       THEN /\ respond(400, FALSE, "Teacher key not uploaded", <<>>)
            /\ UNCHANGED <<log, extract_vars, text>>
       ELSE /\ pc' = "teacher_extract"
            /\ log' = Append(log, <<"extract_text", 0>>)
            /\ call_extract_text(DocTable[request.teacher])
            /\ UNCHANGED response
    /\ UNCHANGED <<request, teacher_answers, teacher_embeddings, all_results,
                   k, student_answers, student_embeddings, student_result,
                   similarities, i, cleaned>>

\* Lines 76-85: the first two validations, then the call
\* extract_text(teacher_pdf).
Validate ==
    /\ pc = "start"
    /\ IF request.teacher = Missing
       THEN /\ respond(400, FALSE, "Teacher key not uploaded", <<>>)
            /\ UNCHANGED <<log, extract_vars, text>>
       ELSE IF Len(request.students) = 0
       THEN /\ respond(400, FALSE, "No student files uploaded", <<>>)
            /\ UNCHANGED <<log, extract_vars, text>>
       ELSE /\ pc' = "teacher_extract"
            /\ log' = Append(log, <<"extract_text", 0>>)
            /\ call_extract_text(DocTable[request.teacher])
            /\ UNCHANGED response
    /\ UNCHANGED <<request, teacher_answers, teacher_embeddings, all_results,
                   k, student_answers, student_embeddings, student_result,
                   similarities, i, cleaned>>

\* Lines 85-91: extract_text has returned; split, third validation.
TeacherSplit ==
    /\ pc = "teacher_extract"
    /\ ex_pc = "returned"
    /\ teacher_answers' = split_answers(text)
    /\ log' = Append(log, <<"split_answers", 0>>)
    /\ IF Len(teacher_answers') = 0
       THEN /\ respond(400, FALSE, "Teacher answers could not be extracted", <<>>)
            /\ UNCHANGED all_results
       ELSE /\ all_results' = <<>>
            /\ pc' = "encode_teacher"
            /\ UNCHANGED response
    /\ UNCHANGED <<request, teacher_embeddings, k, student_answers,
                   student_embeddings, student_result, similarities, i,
                   extract_vars, text, cleaned>>

\* Lines 94-97: model.encode(teacher_answers).  An embedding is written as
\* the answer it was computed from.
EncodeTeacher ==
    /\ pc = "encode_teacher"
    /\ teacher_embeddings' = teacher_answers
    /\ log' = Append(log, <<"encode", 0>>)
    /\ k' = 1
    /\ pc' = "loop"
    /\ UNCHANGED <<request, teacher_answers, all_results, student_answers,
                   student_embeddings, student_result, similarities, i,
                   response, extract_vars, text, cleaned>>

\* Line 99, then either the call extract_text(student_pdf) of line 101 or,
\* after the last student, the response of lines 164-167.
NextStudent ==
    /\ pc = "loop"
    /\ IF k > Len(request.students)
       THEN /\ respond(200, TRUE, "", all_results)
            /\ UNCHANGED <<log, extract_vars, text>>
       ELSE /\ pc' = "student_extract"
            /\ log' = Append(log, <<"extract_text", k>>)
            /\ call_extract_text(DocTable[request.students[k]])
            /\ UNCHANGED response
    /\ UNCHANGED <<request, teacher_answers, teacher_embeddings, all_results,
                   k, student_answers, student_embeddings, student_result,
                   similarities, i, cleaned>>

\* Lines 104-108.
new_student_result(student_pdf) ==
    [pdf_name |-> student_pdf, questions |-> <<>>, performance_score |-> 0]

\* A variant of new_similarities: the list is not emptied for a new student.
kept_similarities(old) == old

\* Line 110.
new_similarities(old) == <<>>

\* Lines 101-114: extract_text has returned; split, start the result, and
\* for a student with no answers append it and continue.
StudentSplit ==
    /\ pc = "student_extract"
    /\ ex_pc = "returned"
    /\ student_answers' = split_answers(text)
    /\ log' = Append(log, <<"split_answers", k>>)
    /\ student_result' = new_student_result(request.students[k])
    /\ similarities' = new_similarities(similarities)
    /\ IF Len(student_answers') = 0
       THEN /\ all_results' = Append(all_results, student_result')
            /\ k' = k + 1
            /\ pc' = "loop"
       ELSE /\ pc' = "encode_student"
            /\ UNCHANGED <<all_results, k>>
    /\ UNCHANGED <<request, teacher_answers, teacher_embeddings,
                   student_embeddings, i, response, extract_vars, text, cleaned>>

\* Lines 117-120: model.encode(student_answers).
EncodeStudent ==
    /\ pc = "encode_student"
    /\ student_embeddings' = student_answers
    /\ log' = Append(log, <<"encode", k>>)
    /\ i' = 0
    /\ pc' = "score"
    /\ UNCHANGED <<request, teacher_answers, teacher_embeddings, all_results,
                   k, student_answers, student_result, similarities, response,
                   extract_vars, text, cleaned>>

\* A variant of pairs_to_score: one pair per teacher answer.
pairs_per_key == Len(teacher_answers)

\* Line 122.
pairs_to_score == min(Len(teacher_answers), Len(student_answers))

\* Lines 148-152.
question_result(n, percent_score, status) ==
    [question_number |-> n, similarity_percent |-> percent_score,
     status |-> status]

\* Lines 122-152: one iteration of the loop over the answer pairs; the
\* value of util.cos_sim(...) is any value of SimSet.
ScorePair ==
    /\ pc = "score"
    /\ i < pairs_to_score
    /\ \E cos_sim \in SimSet :
         LET similarity == clamp(cos_sim)
             percent_score == percent_of(similarity)
         IN  /\ log' = Append(log, <<"cos_sim", k, i + 1, cos_sim>>)
             /\ similarities' = Append(similarities, similarity)
             /\ student_result' =
                  [student_result EXCEPT
                     !.questions = Append(@, question_result(i + 1, percent_score,
                                                             status_of(percent_score)))]
    /\ i' = i + 1
    /\ UNCHANGED <<pc, request, teacher_answers, teacher_embeddings,
                   all_results, k, student_answers, student_embeddings,
                   response, extract_vars, text, cleaned>>

\* A variant of FinishStudent: the result is put first in all_results.
FinishStudentFirst ==
    /\ pc = "score"
    /\ i >= pairs_to_score
    /\ student_result' =
         [student_result EXCEPT !.performance_score = performance_of(similarities)]
    /\ all_results' = <<student_result'>> \o all_results
    /\ k' = k + 1
    /\ pc' = "loop"
    /\ UNCHANGED <<request, teacher_answers, teacher_embeddings,
                   student_answers, student_embeddings, similarities, i,
                   response, log, extract_vars, text, cleaned>>

\* Lines 155-162: after the last pair.
FinishStudent ==
    /\ pc = "score"
    /\ i >= pairs_to_score
    /\ student_result' =
         [student_result EXCEPT !.performance_score = performance_of(similarities)]
    /\ all_results' = Append(all_results, student_result')
    /\ k' = k + 1
    /\ pc' = "loop"
    /\ UNCHANGED <<request, teacher_answers, teacher_embeddings,
                   student_answers, student_embeddings, similarities, i,
                   response, log, extract_vars, text, cleaned>>

\* Lines 169-174: an exception raised by model.encode or util.cos_sim, or
\* one that extract_text let through, is caught at the top level.
UnexpectedError ==
    /\ \/ pc \in {"encode_teacher", "encode_student"}
       \/ pc = "score" /\ i < pairs_to_score
       \/ pc \in {"teacher_extract", "student_extract"} /\ ex_pc = "raised"
    /\ respond(500, FALSE, "exception", <<>>)
    /\ UNCHANGED <<request, teacher_answers, teacher_embeddings, all_results,
                   k, student_answers, student_embeddings, student_result,
                   similarities, i, log, extract_vars, text, cleaned>>

Analyze ==
    \/ Validate
    \/ TeacherSplit
    \/ EncodeTeacher
    \/ NextStudent
    \/ StudentSplit
    \/ EncodeStudent
    \/ ScorePair
    \/ FinishStudent
    \/ UnexpectedError

\* The teacher files that give at most one answer.
ShortKeys == {"mixed.pdf", "broken.pdf", "note.pdf"}

\* The requests of Spec: up to MaxStudents students against a short key (or
\* none), and one student (or none) against every key.
Requests ==
    [teacher : ShortKeys \cup {Missing}, students : SeqsUpTo(DocIds, MaxStudents)]
    \cup [teacher : DocIds, students : SeqsUpTo(DocIds, 1)]

Init ==
    /\ pc = "start"
    /\ request \in Requests
    /\ teacher_answers = <<>>
    /\ teacher_embeddings = <<>>
    /\ all_results = <<>>
    /\ k = 0
    /\ student_answers = <<>>
    /\ student_embeddings = <<>>
    /\ student_result = NoResult
    /\ similarities = <<>>
    /\ i = 0
    /\ response = NoResponse
    /\ log = <<>>
    /\ ExtractIdle
    /\ text = <<>>
    /\ cleaned = <<>>

Next == Analyze \/ ExtractStep

Spec == Init /\ [][Next]_vars

-----------------------------------------------------------------------------
(* Properties of split_answers, checked under SpecSplit.                    *)

\* s[a..e] reads: an optional Q, one or more digits, a period.  With
\* atBoundary, the delimiter must also begin at a word boundary.
IsDelimiter(s, a, e, atBoundary) ==
    /\ 1 <= a /\ a < e /\ e <= Len(s)
    /\ s[e] = "."
    /\ LET d == IF s[a] = "Q" THEN a + 1 ELSE a
       IN  d < e /\ \A x \in d..(e - 1) : s[x] \in Digits
    /\ atBoundary =>
         (a = 1 \/ s[a - 1] \notin (Letters \cup Digits \cup {"_"}))

\* The occurrences of the delimiter in s: for each period that ends one, the
\* occurrence that starts first (occurrences that overlap end at the same
\* period, and a scan from the left meets the one that starts first).
Delimiters(s, atBoundary) ==
    LET dots == {e \in 1..Len(s) : s[e] = "."}
        cand == {c \in UNION {{<<a, e>> : a \in 1..(e - 1)} : e \in dots} :
                    IsDelimiter(s, c[1], c[2], atBoundary)}
    IN  {c \in cand : \A c2 \in cand : c2[2] = c[2] => c[1] <= c2[1]}

\* The pieces of s between the delimiters, trimmed, those of more than 20
\* characters only, in the order of the text.
SegmentsOf(s, atBoundary) ==
    LET D == Delimiters(s, atBoundary)
        n == Cardinality(D)
        nth(m) == CHOOSE c \in D : Cardinality({c2 \in D : c2[1] < c[1]}) = m - 1
        piece(m) == SubSeq(s,
                           IF m = 1 THEN 1 ELSE nth(m - 1)[2] + 1,
                           IF m = n + 1 THEN Len(s) ELSE nth(m)[1] - 1)
        trimmed == [m \in 1..(n + 1) |-> strip(piece(m))]
        Keep(t) == Len(t) > 20
    IN  SelectSeq(trimmed, Keep)

\* "Hello world this is long enough."
ExampleSegment == SubSeq(ExampleText, 4, 35)

-----------------------------------------------------------------------------
(* Properties of extract_text, checked under SpecExtract.                   *)

RECURSIVE JoinLines(_)
JoinLines(ts) ==
    IF ts = <<>> THEN <<>>
    ELSE (IF Head(ts) = <<>> THEN <<>> ELSE Head(ts) \o <<NL>>)
         \o JoinLines(Tail(ts))

\* The outcomes before the first exception.
BeforeRaise(outs) ==
    LET bad == {n \in 1..Len(outs) : outs[n] = RAISE}
    IN  IF bad = {} THEN outs ELSE SubSeq(outs, 1, Min(bad) - 1)

DirectRaised(f) == f.open = "raise" \/ \E n \in 1..Len(f.pages) : f.pages[n] = RAISE

\* The text direct extraction obtains from f.
DirectText(f) ==
    IF f.open = "raise" THEN <<>> ELSE JoinLines(BeforeRaise(f.pages))

\* The text OCR adds for f: one line per image up to the first failure.
OcrText(f) ==
    IF f.seek = "raise" \/ f.convert = "raise" THEN <<>>
    ELSE LET got == BeforeRaise(f.images)
         IN  Flatten([n \in 1..Len(got) |-> got[n] \o <<NL>>])

\* The text extract_text is to return for f.
ReturnedText(f) ==
    IF ~DirectRaised(f) /\ Len(strip(DirectText(f))) > 50
    THEN DirectText(f)
    ELSE DirectText(f) \o OcrText(f)

OcrCalls == {"seek", "read", "convert_from_bytes", "image_to_string"}

OcrInvoked == \E n \in 1..Len(calls) : calls[n][1] \in OcrCalls

\* C9, as stated: whenever the directly extracted text has stripped length
\* > 50, OCR is never invoked and that text is returned unchanged.
C9_LongDirectTextNeverOcr ==
    Len(strip(DirectText(pdf_file))) > 50 =>
        /\ ~OcrInvoked
        /\ ex_pc = "returned" => text = DirectText(pdf_file)

\* C9, amended: whenever direct extraction completes without raising and
\* its text has stripped length > 50, OCR is never invoked and that text is
\* returned unchanged; OCR is attempted only when direct extraction raised
\* or gave <= 50 stripped characters, and then the stream is rewound to the
\* start before OCR reads it.
C9_CheapPathFirst ==
    /\ (~DirectRaised(pdf_file) /\ Len(strip(DirectText(pdf_file))) > 50) =>
          /\ ~OcrInvoked
          /\ ex_pc = "returned" => text = DirectText(pdf_file)
    /\ OcrInvoked =>
          DirectRaised(pdf_file) \/ Len(strip(DirectText(pdf_file))) <= 50
    /\ \A n \in 1..Len(calls) :
          calls[n][1] = "read" =>
              /\ calls[n][2] = "start"
              /\ n > 1 /\ calls[n - 1] = <<"seek", 0>>

\* C9: a document whose pages gave more than 50 characters has been
\* returned from, without OCR.
C9_Witness ==
    /\ ex_pc = "returned"
    /\ pdf_file.open = "ok"
    /\ Len(pdf_file.pages) = 2
    /\ Len(strip(text)) > 50
    /\ calls = <<(<<"PdfReader">>), (<<"page.extract_text", 1>>),
                 (<<"page.extract_text", 2>>)>>

\* C10: extract_text never raises, always returns, and returns the text
\* accumulated up to the point where extraction or OCR stopped: the direct
\* text alone when that is long enough, else the direct text followed by
\* the OCR text of the images before the first failure.
C10_NeverRaisesAlwaysReturns ==
    /\ [](ex_pc # "raised")
    /\ <>(ex_pc = "returned")
    /\ [](ex_pc = "returned" => text = ReturnedText(pdf_file))

\* C10: extract_text has returned after direct extraction raised on the
\* second page and OCR raised on the second image, with the text of the
\* first page and of the first image.
C10_Witness ==
    /\ ex_pc = "returned"
    /\ Len(pdf_file.pages) = 2 /\ pdf_file.pages[2] = RAISE
    /\ Len(pdf_file.images) = 2 /\ pdf_file.images[2] = RAISE
    /\ calls[Len(calls)] = <<"image_to_string", 2>>
    /\ text = pdf_file.pages[1] \o <<NL>> \o pdf_file.images[1] \o <<NL>>
    /\ pdf_file.pages[1] # <<>>

-----------------------------------------------------------------------------
(* Properties of analyze, checked under Spec.                               *)

\* The number of answers of uploaded file d, from its text.
AnswerCount(d) == Len(SegmentsOf(ReturnedText(DocTable[d]), TRUE))

Students == request.students

\* The result of student n: in all_results once appended, else the result
\* under construction.
ResultOf(n) == IF n <= Len(all_results) THEN all_results[n] ELSE student_result

\* The values util.cos_sim returned for student n, in the order of the calls.
CosSims(n) ==
    LET at == {x \in 1..Len(log) : log[x][1] = "cos_sim" /\ log[x][2] = n}
    IN  [m \in 1..Cardinality(at) |->
            log[CHOOSE x \in at : Cardinality({y \in at : y < x}) = m - 1][4]]

\* p is an integer nearest to n / d.
Nearest(p, n, d) ==
    LET diff == p * d - n
    IN  2 * (IF diff < 0 THEN 0 - diff ELSE diff) <= d

Floored(v) == IF v < 20000 THEN 0 ELSE v

LabelOf(p) ==
    CASE p >= 7500 -> "Strong Understanding"
      [] p >= 4500 /\ p < 7500 -> "Partial Understanding"
      [] p > 0 /\ p < 4500 -> "Weak Understanding"
      [] p = 0 -> "Not Related"
      [] OTHER -> "(none)"

Rejected(message) ==
    /\ pc = "done"
    /\ response = [code |-> 400, success |-> FALSE, error |-> message,
                   data |-> <<>>]

LogHas(op, who) == \E x \in 1..Len(log) : log[x][1] = op /\ log[x][2] = who

\* C1: the validations are applied in order, each failure ends the request
\* with 400 and its own message: no teacher file (whatever the students
\* list) before any extraction; else an empty students list before any
\* extraction; else no teacher answers, after the teacher document alone was
\* extracted and split, with no embedding computed and no student touched.
C1_ValidationOrder ==
    /\ request.teacher = Missing =>
          /\ log = <<>> /\ ex_pc = "idle"
          /\ pc = "done" => Rejected("Teacher key not uploaded")
    /\ (request.teacher # Missing /\ Students = <<>>) =>
          /\ log = <<>> /\ ex_pc = "idle"
          /\ pc = "done" => Rejected("No student files uploaded")
    /\ (LogHas("split_answers", 0) /\ teacher_answers = <<>>) =>
          /\ Rejected("Teacher answers could not be extracted")
          /\ log = <<(<<"extract_text", 0>>), (<<"split_answers", 0>>)>>
          /\ teacher_embeddings = <<>>
    /\ response.code = 400 =>
          /\ pc = "done"
          /\ all_results = <<>>
          /\ \/ request.teacher = Missing
             \/ Students = <<>>
             \/ AnswerCount(request.teacher) = 0

\* C1: a request with a teacher file and a student file was rejected for
\* its teacher answers, after the teacher file was extracted by OCR.
C1_Witness ==
    /\ Rejected("Teacher answers could not be extracted")
    /\ request.teacher = "note.pdf"
    /\ Len(Students) = 2
    /\ text # <<>>

\* C2: in a successful response every student has min(teacher answers,
\* student answers) question results, numbered 1, 2, ... in order.
C2_QuestionCount ==
    (pc = "done" /\ response.code = 200) =>
        \A n \in 1..Len(response.data) :
            LET qs == response.data[n].questions
            IN  /\ Len(qs) = IF AnswerCount(request.teacher) < AnswerCount(Students[n])
                             THEN AnswerCount(request.teacher)
                             ELSE AnswerCount(Students[n])
                /\ \A m \in 1..Len(qs) : qs[m].question_number = m

\* C2: a student with two answers was scored against a key with three, and
\* has two question results.
C2_Witness ==
    /\ pc = "done" /\ response.code = 200
    /\ Len(teacher_answers) = 3
    /\ Len(response.data) = 1
    /\ AnswerCount(Students[1]) = 2
    /\ Len(response.data[1].questions) = 2

AllQuestions ==
    {student_result.questions[m] : m \in 1..Len(student_result.questions)}
    \cup UNION {{all_results[n].questions[m] :
                    m \in 1..Len(all_results[n].questions)} :
                n \in 1..Len(all_results)}

\* C3: every question result's status is the label of its percentage:
\* Strong from 75, Partial from 45, Weak above 0, Not Related at 0.
C3_StatusThresholds ==
    \A q \in AllQuestions :
        /\ q.similarity_percent >= 0
        /\ q.status = LabelOf(q.similarity_percent)

\* C3: question results at exactly 45.00 (from a similarity of 0.44996) and
\* at exactly 75.00 carry the label of the higher bucket.
C3_Witness ==
    /\ pc = "done" /\ response.code = 200
    /\ Len(all_results) = 1
    /\ CosSims(1) = <<44996, 75000, 74994>>
    /\ all_results[1].questions[1] =
         [question_number |-> 1, similarity_percent |-> 4500,
          status |-> "Partial Understanding"]
    /\ all_results[1].questions[2].status = "Strong Understanding"
    /\ all_results[1].questions[3].similarity_percent = 7499

\* C4: a pair whose raw similarity is below 0.20 has percentage 0, status
\* Not Related and adds 0 to the similarities; a raw similarity of exactly
\* 0.20 is kept; no question result lies strictly between 0 and 20.
C4_NoiseFloor ==
    /\ \A x \in 1..Len(log) :
          log[x][1] = "cos_sim" =>
              LET n == log[x][2]
                  m == log[x][3]
                  v == log[x][4]
                  q == ResultOf(n).questions[m]
              IN  /\ v < 20000 =>
                        /\ q.similarity_percent = 0
                        /\ q.status = "Not Related"
                  /\ v = 20000 => q.similarity_percent = 2000
                  /\ (n = k /\ pc = "score") =>
                        similarities[m] = IF v < 20000 THEN 0 ELSE v
    /\ \A q \in AllQuestions :
          ~(q.similarity_percent > 0 /\ q.similarity_percent < 2000)

\* C4: one student was scored with raw similarities just below the floor,
\* at the floor and negative.
C4_Witness ==
    /\ pc = "done" /\ response.code = 200
    /\ Len(all_results) = 1
    /\ CosSims(1) = <<19999, 20000, -25000>>
    /\ all_results[1].questions[1].status = "Not Related"
    /\ all_results[1].questions[2].similarity_percent = 2000
    /\ all_results[1].questions[3].similarity_percent = 0

\* C5: an appended student's performance_score is the mean of the
\* similarities after the floor, over the pairs scored for that student,
\* times 100 and rounded to 2 decimals, and 0 when no pair was scored;
\* similarities 0.9, 0.3, 0.1 give 40.00.
C5_PerformanceScore ==
    \A n \in 1..Len(all_results) :
        LET vs == CosSims(n)
            total == sum([m \in 1..Len(vs) |-> Floored(vs[m])])
            score == all_results[n].performance_score
        IN  /\ Len(vs) = 0 => score = 0
            /\ Len(vs) > 0 => Nearest(score, total, 10 * Len(vs))
            /\ vs = <<90000, 30000, 10000>> => score = 4000

\* C5: a student was scored with similarities 0.9, 0.3, 0.1 and got 40.00.
C5_Witness ==
    /\ pc = "done" /\ response.code = 200
    /\ Len(all_results) = 1
    /\ CosSims(1) = <<90000, 30000, 10000>>
    /\ all_results[1].performance_score = 4000

\* r is the result of student n computed from that student alone: the
\* file's name and answers, and the similarities of that student's pairs.
IsOwnResult(n, r) ==
    LET vs == CosSims(n)
        total == sum([m \in 1..Len(vs) |-> Floored(vs[m])])
    IN  /\ r.pdf_name = Students[n]
        /\ Len(r.questions) = Len(vs)
        /\ \A m \in 1..Len(vs) :
              /\ r.questions[m].question_number = m
              /\ Nearest(r.questions[m].similarity_percent, Floored(vs[m]), 10)
              /\ r.questions[m].status = LabelOf(r.questions[m].similarity_percent)
        /\ IF Len(vs) = 0
           THEN r.performance_score = 0
           ELSE Nearest(r.performance_score, total, 10 * Len(vs))

\* C6: a student whose document gives no answers gets an empty question
\* list and score 0, with no embedding and no scoring for that student; the
\* request is not failed by it; and every student's result is the one
\* computed from that student alone, whatever the other students are.
C6_EmptyStudentIsolated ==
    /\ \A n \in 1..Len(Students) :
          AnswerCount(Students[n]) = 0 =>
              /\ ~LogHas("encode", n) /\ ~LogHas("cos_sim", n)
              /\ n <= Len(all_results) =>
                    all_results[n] = [pdf_name |-> Students[n],
                                      questions |-> <<>>,
                                      performance_score |-> 0]
              /\ (response.code = 500) => k # n
    /\ \A n \in 1..Len(all_results) : IsOwnResult(n, all_results[n])
    /\ (pc = "done" /\ response.code = 200) =>
          /\ response.success
          /\ response.data = all_results
          /\ Len(all_results) = Len(Students)

\* C6: a request succeeded whose first student gave no answers (the reader
\* and the rewind raised) and whose second student was scored.
C6_Witness ==
    /\ pc = "done" /\ response.code = 200 /\ response.success
    /\ Len(response.data) = 2
    /\ Students[1] = "broken.pdf"
    /\ response.data[1].questions = <<>>
    /\ response.data[1].performance_score = 0
    /\ Len(response.data[2].questions) = 1
    /\ response.data[2].performance_score = 9000

\* C7: the teacher document is extracted, split and embedded once, before
\* any student; the students are processed one after the other in the
\* order given; a successful response holds one result per student, in that
\* order, named after the student's file.
C7_OrderedResults ==
    /\ \A x \in 1..Len(log), y \in 1..Len(log) :
          x < y => /\ log[x][2] <= log[y][2]
                   /\ log[y][2] = 0 => log[x] # log[y]
    /\ Len(log) >= 1 => log[1] = <<"extract_text", 0>>
    /\ Len(log) >= 2 => log[2] = <<"split_answers", 0>>
    /\ Len(log) >= 3 => log[3] = <<"encode", 0>>
    /\ \A n \in 1..Len(all_results) : all_results[n].pdf_name = Students[n]
    /\ (pc = "done" /\ response.code = 200) =>
          /\ Len(response.data) = Len(Students)
          /\ \A n \in 1..Len(Students) :
                /\ response.data[n].pdf_name = Students[n]
                /\ Cardinality({x \in 1..Len(log) :
                                   log[x] = <<"extract_text", n>>}) = 1

\* C7: a request with two different student files succeeded, with their
\* results in the order of the files.
C7_Witness ==
    /\ pc = "done" /\ response.code = 200
    /\ Students = <<"typed.pdf", "scan.pdf">>
    /\ response.data[1].pdf_name = "typed.pdf"
    /\ response.data[2].pdf_name = "scan.pdf"
    /\ Len(response.data[1].questions) = 1

=============================================================================
